---- MODULE Spec2Model ----
(***************************************************************************)
(* A model of the frozenset crate (src/src/lib.rs): FrozenMap and          *)
(* FrozenSet, the hashable wrappers around HashMap and HashSet.            *)
(*                                                                         *)
(* A collection is kept as the sequence of its entries in iteration order  *)
(* together with its hash strategy (the BuildHasher S).  The iteration     *)
(* order follows the bucket each key falls in under S, and, inside one     *)
(* bucket, the insertion history: it is nothing a caller may rely on.      *)
(* The caller binds one wrapper to its handle `w`, calls it any number of   *)
(* times by reference, and may at last move it out (thaw, into_iter); the  *)
(* result of its last call is in `out`.  The second operand of eq is any   *)
(* wrapper of the same type that a caller can have built.                  *)
(***************************************************************************)
EXTENDS Integers, Sequences, FiniteSets, TLC

\* Bounds of the model.
MaxKey == 2
MaxVal == 2
MaxIterLen == 2
DigestBits == 5

Keys == 1..MaxKey
Vals == 1..MaxVal
Pairs == Keys \X Vals

RECURSIVE SeqsUpTo(_, _)
SeqsUpTo(S, n) ==
    IF n = 0 THEN {<<>>}
    ELSE LET shorter == SeqsUpTo(S, n - 1)
         IN  shorter \cup {Append(q, x) : q \in {r \in shorter : Len(r) = n - 1}, x \in S}

\* What a caller can hand over as an iterator or an array.
PairSeqs == SeqsUpTo(Pairs, MaxIterLen)
ElemSeqs == SeqsUpTo(Keys, MaxIterLen)

----------------------------------------------------------------------------
\* The hash strategy S of a collection.

\* RandomState: every instance carries its own random keys (here: a seed).
RandomStates == {[type |-> "RandomState", seed |-> n] : n \in {0, 1}}

\* A caller-chosen deterministic strategy, e.g. BuildHasherDefault<H>.
OtherStates == {[type |-> "BuildHasherDefault", seed |-> 0]}

Strategies == RandomStates \cup OtherStates

\* S::default(): a fresh RandomState has fresh keys, the other is fixed.
DefaultsOf(type) == {s \in Strategies : s.type = type}

StrategyTypes == {s.type : s \in Strategies}

\* The bucket a key falls in under a strategy.
BucketOf(s, k) == IF s.type = "RandomState" THEN (k + s.seed) % 2 ELSE 0

----------------------------------------------------------------------------
\* std::collections::HashMap, as far as the wrappers use it.

HashMapWithHasher(s) == [entries |-> <<>>, hash_builder |-> s]

\* Where a new key goes: behind every entry of a bucket not after its own.
RECURSIVE InsertPos(_, _, _, _)
InsertPos(keyOf, s, k, p) ==
    IF p > Len(keyOf) THEN p
    ELSE IF BucketOf(s, keyOf[p]) > BucketOf(s, k) THEN p
    ELSE InsertPos(keyOf, s, k, p + 1)

InsertAt(q, p, x) == SubSeq(q, 1, p - 1) \o <<x>> \o SubSeq(q, p, Len(q))

KeysOf(m) == [p \in 1..Len(m.entries) |-> m.entries[p][1]]

\* HashMap::insert: an existing key keeps its place and gets the new value.
HashMapInsert(m, k, v) ==
    LET hit == {p \in 1..Len(m.entries) : m.entries[p][1] = k}
    IN  IF hit # {}
        THEN [m EXCEPT !.entries = [p \in 1..Len(m.entries) |->
                 IF p \in hit THEN <<k, v>> ELSE m.entries[p]]]
        ELSE [m EXCEPT !.entries =
                 InsertAt(m.entries, InsertPos(KeysOf(m), m.hash_builder, k, 1), <<k, v>>)]

\* HashMap::get: Some(v) is <<v>>, None is <<>>.
HashMapGet(m, k) ==
    LET hit == {p \in 1..Len(m.entries) : m.entries[p][1] = k}
    IN  IF hit = {} THEN <<>> ELSE <<m.entries[CHOOSE p \in hit : TRUE][2]>>

\* HashMap::extend / FromIterator: insert the pairs in the order they come.
RECURSIVE HashMapExtend(_, _)
HashMapExtend(m, pairs) ==
    IF pairs = <<>> THEN m
    ELSE HashMapExtend(HashMapInsert(m, pairs[1][1], pairs[1][2]), Tail(pairs))

HashMapFromIter(s, pairs) == HashMapExtend(HashMapWithHasher(s), pairs)

\* HashMap::eq: same length, and every entry of self is found in other.
HashMapEq(m1, m2) ==
    /\ Len(m1.entries) = Len(m2.entries)
    /\ \A p \in 1..Len(m1.entries) :
          HashMapGet(m2, m1.entries[p][1]) = <<m1.entries[p][2]>>

\* The maps a caller can have built.
HashMaps == {HashMapFromIter(s, q) : s \in Strategies, q \in PairSeqs}

----------------------------------------------------------------------------
\* std::collections::HashSet, as far as the wrappers use it.

HashSetWithHasher(s) == [elems |-> <<>>, hash_builder |-> s]

HashSetContains(c, t) == \E p \in 1..Len(c.elems) : c.elems[p] = t

\* HashSet::insert: an element already there is left alone.
HashSetInsert(c, t) ==
    IF HashSetContains(c, t) THEN c
    ELSE [c EXCEPT !.elems = InsertAt(c.elems, InsertPos(c.elems, c.hash_builder, t, 1), t)]

RECURSIVE HashSetExtend(_, _)
HashSetExtend(c, ts) ==
    IF ts = <<>> THEN c
    ELSE HashSetExtend(HashSetInsert(c, ts[1]), Tail(ts))

HashSetFromIter(s, ts) == HashSetExtend(HashSetWithHasher(s), ts)

\* HashSet::eq: same length, and every element of self is in other.
HashSetEq(c1, c2) ==
    /\ Len(c1.elems) = Len(c2.elems)
    /\ \A p \in 1..Len(c1.elems) : HashSetContains(c2, c1.elems[p])

HashSets == {HashSetFromIter(s, q) : s \in Strategies, q \in ElemSeqs}

----------------------------------------------------------------------------
\* Hashers.  A hasher is the sequence of the integers written to it so far.

Width == 2 ^ DigestBits

RECURSIVE BitXor(_, _)
BitXor(x, y) ==
    IF x = 0 THEN y
    ELSE IF y = 0 THEN x
    ELSE ((x + y) % 2) + 2 * BitXor(x \div 2, y \div 2)

\* DefaultHasher::new(): always the same keys, nothing written.
DefaultHasherNew == <<>>

\* <i32 as Hash>::hash and <u64 as Hash>::hash: one write of the integer.
HashInt(x, hasher) == Append(hasher, x)

\* One round of the hasher over one written integer, at the digest's width.
Compress(h, x) == ((h + x) * 13 + ((h + x) \div 4) + 7) % Width

RECURSIVE Absorb(_, _)
Absorb(h, written) ==
    IF written = <<>> THEN h
    ELSE Absorb(Compress(h, written[1]), Tail(written))

\* Hasher::finish of a DefaultHasher: the digest of what was written.
Finish(hasher) == Compress(Absorb(0, hasher), Len(hasher))

\* The states a caller's hasher can be in when a wrapper is hashed into it.
HasherStates == {<<>>, <<1>>}

----------------------------------------------------------------------------
\* FrozenMap.

\* The handle before it is bound, and after the wrapper was moved out of it.
Unbound == [unbound |-> TRUE]
Moved == [moved |-> TRUE]

IsFrozenMap(w) == "map" \in DOMAIN w
IsFrozenSet(w) == "set" \in DOMAIN w

\* impl Freeze for HashMap
HashMap_freeze(x) == [map |-> x]

\* impl Default for FrozenMap, S::default() being s
FrozenMap_default(s) == [map |-> HashMapWithHasher(s)]

\* FrozenMap::new
FrozenMap_new(s) == FrozenMap_default(s)

\* A thaw that collects the entries into a new map: the strategy is lost.
FrozenMap_thaw_rebuilt(w) ==
    HashMapFromIter([type |-> "RandomState", seed |-> 0], w.map.entries)

\* FrozenMap::thaw
FrozenMap_thaw(w) == w.map

\* impl Deref for FrozenMap
FrozenMap_deref(w) == w.map

\* impl From<T> for FrozenMap, T a HashMap (into() is the identity)
FrozenMap_from(t) == [map |-> t]

\* impl From<T> for FrozenMap, T an array of pairs (HashMap::from(array))
FrozenMap_from_array(s, arr) == [map |-> HashMapFromIter(s, arr)]

\* A from_iter that keeps the first value of a key (entry().or_insert()).
RECURSIVE HashMapExtendAbsent(_, _)
HashMapExtendAbsent(m, pairs) ==
    IF pairs = <<>> THEN m
    ELSE HashMapExtendAbsent(
             IF HashMapGet(m, pairs[1][1]) = <<>>
             THEN HashMapInsert(m, pairs[1][1], pairs[1][2]) ELSE m,
             Tail(pairs))

FrozenMap_from_iter_first_wins(s, iter) ==
    [map |-> HashMapExtendAbsent(HashMapWithHasher(s), iter)]

\* impl FromIterator<(K, V)> for FrozenMap
FrozenMap_from_iter(s, iter) == [map |-> HashMapFromIter(s, iter)]

\* An index that answers a default value for an absent key.
FrozenMap_index_or_default(w, key) ==
    LET found == HashMapGet(w.map, key)
    IN  [panic |-> FALSE, value |-> IF found = <<>> THEN 0 ELSE found[1]]

\* impl Index<&Q> for FrozenMap: &self.map[key] panics on an absent key
FrozenMap_index(w, key) ==
    LET found == HashMapGet(w.map, key)
    IN  IF found = <<>> THEN [panic |-> TRUE] ELSE [panic |-> FALSE, value |-> found[1]]

\* impl IntoIterator for FrozenMap
FrozenMap_into_iter(w) == w.map.entries

\* An eq that compares the keys and not the values.
FrozenMap_eq_keys(self, other) ==
    /\ Len(self.map.entries) = Len(other.map.entries)
    /\ \A p \in 1..Len(self.map.entries) :
          HashMapGet(other.map, self.map.entries[p][1]) # <<>>

\* impl PartialEq for FrozenMap
FrozenMap_eq(self, other) == HashMapEq(self.map, other.map)

\* #[derive(Clone)]
FrozenMap_clone(w) == [map |-> w.map]

\* A loop that hashes the sequence of the entries: each digest is combined
\* with the accumulator shifted on.
RECURSIVE FrozenMap_overall_hash_chained(_, _)
FrozenMap_overall_hash_chained(overall_hash, entries) ==
    IF entries = <<>> THEN overall_hash
    ELSE LET hasher == HashInt(entries[1][2], HashInt(entries[1][1], DefaultHasherNew))
         IN  FrozenMap_overall_hash_chained(
                 BitXor((overall_hash * 2) % Width, Finish(hasher)), Tail(entries))

\* The loop of FrozenMap::hash over the entries in iteration order.
RECURSIVE FrozenMap_overall_hash(_, _)
FrozenMap_overall_hash(overall_hash, entries) ==
    IF entries = <<>> THEN overall_hash
    ELSE LET hasher == HashInt(entries[1][2], HashInt(entries[1][1], DefaultHasherNew))
         IN  FrozenMap_overall_hash(BitXor(overall_hash, Finish(hasher)), Tail(entries))

\* A hash whose per-entry hasher comes from the map's own strategy S.
RECURSIVE FrozenMap_overall_hash_S(_, _, _)
FrozenMap_overall_hash_S(s, overall_hash, entries) ==
    IF entries = <<>> THEN overall_hash
    ELSE LET hasher == HashInt(entries[1][2], HashInt(entries[1][1], <<s.seed>>))
         IN  FrozenMap_overall_hash_S(s, BitXor(overall_hash, Finish(hasher)), Tail(entries))

FrozenMap_hash_with_S(w, state) ==
    HashInt(FrozenMap_overall_hash_S(w.map.hash_builder, 0, w.map.entries), state)

\* impl Hash for FrozenMap
FrozenMap_hash(w, state) == HashInt(FrozenMap_overall_hash(0, w.map.entries), state)

----------------------------------------------------------------------------
\* FrozenSet.

\* impl Freeze for HashSet
HashSet_freeze(x) == [set |-> x]

\* impl Default for FrozenSet
FrozenSet_default(s) == [set |-> HashSetWithHasher(s)]

\* FrozenSet::new
FrozenSet_new(s) == [set |-> HashSetWithHasher(s)]

\* FrozenSet::thaw
FrozenSet_thaw(w) == w.set

\* impl Deref for FrozenSet
FrozenSet_deref(w) == w.set

\* impl From<F> for FrozenSet, F a HashSet
FrozenSet_from(t) == [set |-> t]

\* impl From<F> for FrozenSet, F an array of elements
FrozenSet_from_array(s, arr) == [set |-> HashSetFromIter(s, arr)]

\* impl FromIterator<T> for FrozenSet
FrozenSet_from_iter(s, iter) == [set |-> HashSetFromIter(s, iter)]

\* impl IntoIterator for FrozenSet
FrozenSet_into_iter(w) == w.set.elems

\* An eq that compares the elements in iteration order.
FrozenSet_eq_ordered(self, other) == self.set.elems = other.set.elems

\* impl PartialEq for FrozenSet
FrozenSet_eq(self, other) == HashSetEq(self.set, other.set)

\* #[derive(Clone)]
FrozenSet_clone(w) == [set |-> w.set]

\* A loop with one hasher for all elements, made before the loop.
RECURSIVE FrozenSet_overall_hash_shared(_, _, _)
FrozenSet_overall_hash_shared(hasher, overall_hash, elems) ==
    IF elems = <<>> THEN overall_hash
    ELSE LET fed == HashInt(elems[1], hasher)
         IN  FrozenSet_overall_hash_shared(fed, BitXor(overall_hash, Finish(fed)), Tail(elems))

FrozenSet_overall_hash_one_hasher(overall_hash, elems) ==
    FrozenSet_overall_hash_shared(DefaultHasherNew, overall_hash, elems)

\* The loop of FrozenSet::hash over the elements in iteration order.
RECURSIVE FrozenSet_overall_hash(_, _)
FrozenSet_overall_hash(overall_hash, elems) ==
    IF elems = <<>> THEN overall_hash
    ELSE LET hasher == HashInt(elems[1], DefaultHasherNew)
         IN  FrozenSet_overall_hash(BitXor(overall_hash, Finish(hasher)), Tail(elems))

\* A hash whose accumulator starts from one, not from zero.
FrozenSet_hash_from_one(w, state) == HashInt(FrozenSet_overall_hash(1, w.set.elems), state)

\* impl Hash for FrozenSet
FrozenSet_hash(w, state) == HashInt(FrozenSet_overall_hash(0, w.set.elems), state)

----------------------------------------------------------------------------
\* The caller.

VARIABLES w, out

vars == <<w, out>>

Nil == <<>>

Result(ty, op, arg, res) == [ty |-> ty, op |-> op, arg |-> arg, res |-> res]

Init ==
    /\ w = Unbound
    /\ out = Result("", "start", Nil, Nil)

\* The wrappers a caller can have built, the second operands of eq.
FrozenMaps == {HashMap_freeze(x) : x \in HashMaps}
FrozenSets == {HashSet_freeze(x) : x \in HashSets}

\* A call that got the collection by &mut and removed its first entry.
BorrowedMut(self) ==
    IF IsFrozenMap(self)
    THEN [map |-> [self.map EXCEPT !.entries = SubSeq(@, 2, Len(@))]]
    ELSE [set |-> [self.set EXCEPT !.elems = SubSeq(@, 2, Len(@))]]

\* A call on &self leaves the wrapper as it is.
Borrowed(self) == self

\* ---- FrozenMap: construction

MapFreeze ==
    /\ w = Unbound
    /\ \E x \in HashMaps :
        /\ w' = HashMap_freeze(x)
        /\ out' = Result("FrozenMap", "freeze", x, Nil)

MapNew ==
    /\ w = Unbound
    /\ \E s \in DefaultsOf("RandomState") :
        /\ w' = FrozenMap_new(s)
        /\ out' = Result("FrozenMap", "new", Nil, Nil)

MapDefault ==
    /\ w = Unbound
    /\ \E ty \in StrategyTypes : \E s \in DefaultsOf(ty) :
        /\ w' = FrozenMap_default(s)
        /\ out' = Result("FrozenMap", "default", Nil, Nil)

MapFrom ==
    /\ w = Unbound
    /\ \/ \E t \in HashMaps :
            /\ w' = FrozenMap_from(t)
            /\ out' = Result("FrozenMap", "from", t, Nil)
       \/ \E arr \in PairSeqs : \E s \in DefaultsOf("RandomState") :
            /\ w' = FrozenMap_from_array(s, arr)
            /\ out' = Result("FrozenMap", "from_array", arr, Nil)

MapFromIter ==
    /\ w = Unbound
    /\ \E iter \in PairSeqs : \E ty \in StrategyTypes : \E s \in DefaultsOf(ty) :
        /\ w' = FrozenMap_from_iter(s, iter)
        /\ out' = Result("FrozenMap", "from_iter", iter, Nil)

\* ---- FrozenMap: the calls that consume the wrapper

\* The collection the wrapper was frozen from, when the call before was that freeze.
FrozenFrom == IF out.op = "freeze" THEN <<out.arg>> ELSE Nil

\* thaw is defined for FrozenMap<K, V, RandomState> alone.
MapThaw ==
    /\ IsFrozenMap(w)
    /\ w.map.hash_builder.type = "RandomState"
    /\ w' = Moved
    /\ out' = Result("FrozenMap", "thaw", FrozenFrom, FrozenMap_thaw(w))

MapIntoIter ==
    /\ IsFrozenMap(w)
    /\ w' = Moved
    /\ out' = Result("FrozenMap", "into_iter", Nil, FrozenMap_into_iter(w))

\* ---- FrozenMap: the calls on &self

MapRead ==
    /\ IsFrozenMap(w)
    /\ w' = Borrowed(w)
    /\ LET m == FrozenMap_deref(w)
       IN  \/ \E k \in Keys :
                out' = Result("FrozenMap", "contains_key", k, HashMapGet(m, k) # <<>>)
           \/ \E k \in Keys :
                out' = Result("FrozenMap", "get", k, HashMapGet(m, k))
           \/ out' = Result("FrozenMap", "len", Nil, Len(m.entries))
           \/ out' = Result("FrozenMap", "is_empty", Nil, Len(m.entries) = 0)
           \/ out' = Result("FrozenMap", "iter", Nil, m.entries)

MapIndex ==
    /\ IsFrozenMap(w)
    /\ w' = Borrowed(w)
    /\ \E key \in Keys :
          out' = Result("FrozenMap", "index", key, FrozenMap_index(w, key))

MapClone ==
    /\ IsFrozenMap(w)
    /\ w' = Borrowed(w)
    /\ out' = Result("FrozenMap", "clone", Nil, FrozenMap_clone(w))

\* eq compares two wrappers of one type, so of one strategy type.  `arg` says
\* how the other operand is laid out against self.
MapEq ==
    /\ IsFrozenMap(w)
    /\ w' = Borrowed(w)
    /\ \E other \in FrozenMaps :
          /\ other.map.hash_builder.type = w.map.hash_builder.type
          /\ out' = Result("FrozenMap", "eq",
                           [same_order |-> other.map.entries = w.map.entries,
                            same_strategy |-> other.map.hash_builder = w.map.hash_builder],
                           FrozenMap_eq(w, other))

MapHash ==
    /\ IsFrozenMap(w)
    /\ w' = Borrowed(w)
    /\ \E state \in HasherStates :
          out' = Result("FrozenMap", "hash", state, FrozenMap_hash(w, state))

\* ---- FrozenSet: construction

SetFreeze ==
    /\ w = Unbound
    /\ \E x \in HashSets :
        /\ w' = HashSet_freeze(x)
        /\ out' = Result("FrozenSet", "freeze", x, Nil)

SetNew ==
    /\ w = Unbound
    /\ \E s \in DefaultsOf("RandomState") :
        /\ w' = FrozenSet_new(s)
        /\ out' = Result("FrozenSet", "new", Nil, Nil)

SetDefault ==
    /\ w = Unbound
    /\ \E ty \in StrategyTypes : \E s \in DefaultsOf(ty) :
        /\ w' = FrozenSet_default(s)
        /\ out' = Result("FrozenSet", "default", Nil, Nil)

SetFrom ==
    /\ w = Unbound
    /\ \/ \E t \in HashSets :
            /\ w' = FrozenSet_from(t)
            /\ out' = Result("FrozenSet", "from", t, Nil)
       \/ \E arr \in ElemSeqs : \E s \in DefaultsOf("RandomState") :
            /\ w' = FrozenSet_from_array(s, arr)
            /\ out' = Result("FrozenSet", "from_array", arr, Nil)

SetFromIter ==
    /\ w = Unbound
    /\ \E iter \in ElemSeqs : \E ty \in StrategyTypes : \E s \in DefaultsOf(ty) :
        /\ w' = FrozenSet_from_iter(s, iter)
        /\ out' = Result("FrozenSet", "from_iter", iter, Nil)

\* ---- FrozenSet: the calls that consume the wrapper

\* thaw is defined for FrozenSet<T, RandomState> alone.
SetThaw ==
    /\ IsFrozenSet(w)
    /\ w.set.hash_builder.type = "RandomState"
    /\ w' = Moved
    /\ out' = Result("FrozenSet", "thaw", FrozenFrom, FrozenSet_thaw(w))

SetIntoIter ==
    /\ IsFrozenSet(w)
    /\ w' = Moved
    /\ out' = Result("FrozenSet", "into_iter", Nil, FrozenSet_into_iter(w))

\* ---- FrozenSet: the calls on &self

SetRead ==
    /\ IsFrozenSet(w)
    /\ w' = Borrowed(w)
    /\ LET c == FrozenSet_deref(w)
       IN  \/ \E t \in Keys :
                out' = Result("FrozenSet", "contains", t, HashSetContains(c, t))
           \/ out' = Result("FrozenSet", "len", Nil, Len(c.elems))
           \/ out' = Result("FrozenSet", "is_empty", Nil, Len(c.elems) = 0)
           \/ out' = Result("FrozenSet", "iter", Nil, c.elems)

SetClone ==
    /\ IsFrozenSet(w)
    /\ w' = Borrowed(w)
    /\ out' = Result("FrozenSet", "clone", Nil, FrozenSet_clone(w))

SetEq ==
    /\ IsFrozenSet(w)
    /\ w' = Borrowed(w)
    /\ \E other \in FrozenSets :
          /\ other.set.hash_builder.type = w.set.hash_builder.type
          /\ out' = Result("FrozenSet", "eq",
                           [same_order |-> other.set.elems = w.set.elems,
                            same_strategy |-> other.set.hash_builder = w.set.hash_builder],
                           FrozenSet_eq(w, other))

SetHash ==
    /\ IsFrozenSet(w)
    /\ w' = Borrowed(w)
    /\ \E state \in HasherStates :
          out' = Result("FrozenSet", "hash", state, FrozenSet_hash(w, state))

Next ==
    \/ MapFreeze
    \/ MapNew
    \/ MapDefault
    \/ MapFrom
    \/ MapFromIter
    \/ MapThaw
    \/ MapIntoIter
    \/ MapRead
    \/ MapIndex
    \/ MapClone
    \/ MapEq
    \/ MapHash
    \/ SetFreeze
    \/ SetNew
    \/ SetDefault
    \/ SetFrom
    \/ SetFromIter
    \/ SetThaw
    \/ SetIntoIter
    \/ SetRead
    \/ SetClone
    \/ SetEq
    \/ SetHash

Spec == Init /\ [][Next]_vars

----------------------------------------------------------------------------
\* What the properties below speak of.

EntrySet(m) == {m.entries[p] : p \in 1..Len(m.entries)}
KeySet(m) == {m.entries[p][1] : p \in 1..Len(m.entries)}
ElemSet(c) == {c.elems[p] : p \in 1..Len(c.elems)}

\* Every order the entries of a sequence can come in.
Orders(q) == {[p \in 1..Len(q) |-> q[f[p]]] : f \in Permutations(1..Len(q))}

SameType(s1, s2) == s1.type = s2.type

\* The digest of one entry: a fresh hasher fed the key, then the value.
MapEntryDigest(e) == Finish(<<e[1], e[2]>>)
SetEntryDigest(t) == Finish(<<t>>)

\* The exclusive-or, from zero, of the digest of every entry of a set.
RECURSIVE XorOfMapEntries(_)
XorOfMapEntries(S) ==
    IF S = {} THEN 0
    ELSE LET e == CHOOSE x \in S : TRUE
         IN  BitXor(MapEntryDigest(e), XorOfMapEntries(S \ {e}))

RECURSIVE XorOfSetEntries(_)
XorOfSetEntries(S) ==
    IF S = {} THEN 0
    ELSE LET e == CHOOSE x \in S : TRUE
         IN  BitXor(SetEntryDigest(e), XorOfSetEntries(S \ {e}))

\* The pairs of a sequence that no later pair of the same key overwrites.
LastWrites(q) ==
    {q[p] : p \in {p \in 1..Len(q) : \A r \in (p + 1)..Len(q) : q[r][1] # q[p][1]}}

Range(q) == {q[p] : p \in 1..Len(q)}

HashedMap == out.op = "hash" /\ IsFrozenMap(w)
HashedSet == out.op = "hash" /\ IsFrozenSet(w)

BorrowOps ==
    {"contains_key", "get", "len", "is_empty", "iter", "index", "clone", "eq", "hash",
     "contains"}

----------------------------------------------------------------------------
\* C1: wrappers that compare equal hash equal: whenever a wrapper has been
\* hashed into a hasher, hashing any wrapper equal to it (either way round)
\* into a hasher in the same starting state leaves that hasher in the same
\* state; for FrozenMap and for FrozenSet.
C1_EqualWrappersHashEqual ==
    /\ HashedMap =>
          \A other \in FrozenMaps :
              ( /\ SameType(other.map.hash_builder, w.map.hash_builder)
                /\ (FrozenMap_eq(w, other) \/ FrozenMap_eq(other, w)) )
              => FrozenMap_hash(other, out.arg) = out.res
    /\ HashedSet =>
          \A other \in FrozenSets :
              ( /\ SameType(other.set.hash_builder, w.set.hash_builder)
                /\ (FrozenSet_eq(w, other) \/ FrozenSet_eq(other, w)) )
              => FrozenSet_hash(other, out.arg) = out.res

\* A hashed map of two entries with an equal map that is laid out otherwise.
C1_Witness ==
    /\ HashedMap
    /\ Len(w.map.entries) >= 2
    /\ \E other \in FrozenMaps :
          /\ SameType(other.map.hash_builder, w.map.hash_builder)
          /\ FrozenMap_eq(w, other)
          /\ other.map.entries # w.map.entries

\* C2: the hash does not depend on the order of the entries: iterating the
\* entries of a hashed wrapper in any other order, or rebuilding the
\* collection by inserting them in any other order, gives the same hash.
C2_HashOrderIndependent ==
    /\ HashedMap =>
          \A q \in Orders(w.map.entries) :
              /\ FrozenMap_hash([map |-> [w.map EXCEPT !.entries = q]], out.arg) = out.res
              /\ FrozenMap_hash(FrozenMap_from_iter(w.map.hash_builder, q), out.arg) = out.res
    /\ HashedSet =>
          \A q \in Orders(w.set.elems) :
              /\ FrozenSet_hash([set |-> [w.set EXCEPT !.elems = q]], out.arg) = out.res
              /\ FrozenSet_hash(FrozenSet_from_iter(w.set.hash_builder, q), out.arg) = out.res

\* A hashed map that another insertion order makes iterate in another order.
C2_Witness ==
    /\ HashedMap
    /\ Len(w.map.entries) >= 2
    /\ \E q \in Orders(w.map.entries) :
          FrozenMap_from_iter(w.map.hash_builder, q).map.entries # w.map.entries

C4_EqIsEntrySetEquality ==
    /\ IsFrozenMap(w) =>
          \A other \in FrozenMaps :
              SameType(other.map.hash_builder, w.map.hash_builder) =>
                 /\ FrozenMap_eq(w, other) <=> (EntrySet(w.map) = EntrySet(other.map))
                 /\ FrozenMap_eq(other, w) <=> (EntrySet(w.map) = EntrySet(other.map))
    /\ IsFrozenSet(w) =>
          \A other \in FrozenSets :
              SameType(other.set.hash_builder, w.set.hash_builder) =>
                 /\ FrozenSet_eq(w, other) <=> (ElemSet(w.set) = ElemSet(other.set))
                 /\ FrozenSet_eq(other, w) <=> (ElemSet(w.set) = ElemSet(other.set))
    /\ \A s1, s2 \in RandomStates :
          /\ FrozenMap_eq(HashMap_freeze(HashMapFromIter(s1, <<<<1, 2>>, <<3, 4>>>>)),
                          HashMap_freeze(HashMapFromIter(s2, <<<<3, 4>>, <<1, 2>>>>)))
          /\ ~FrozenMap_eq(HashMap_freeze(HashMapFromIter(s1, <<<<1, 2>>>>)),
                           HashMap_freeze(HashMapFromIter(s2, <<<<1, 3>>>>)))
          /\ FrozenMap_eq(HashMap_freeze(HashMapFromIter(s1, <<>>)),
                          HashMap_freeze(HashMapFromIter(s2, <<>>)))
          /\ FrozenSet_eq(HashSet_freeze(HashSetFromIter(s1, <<1, 2, 3>>)),
                          HashSet_freeze(HashSetFromIter(s2, <<3, 2, 1>>)))

\* eq has answered true for an operand in another order under another strategy.
C4_Witness ==
    /\ out.op = "eq"
    /\ out.res = TRUE
    /\ ~out.arg.same_order
    /\ ~out.arg.same_strategy

\* C5: an empty wrapper hashes without error to the zero accumulator, however
\* it was made (new, default, an empty iterator or array, freeze of an empty
\* collection), so all empty wrappers, maps and sets, hash alike.
C5_EmptyHashesToZero ==
    /\ (HashedMap /\ w.map.entries = <<>>) => out.res = Append(out.arg, 0)
    /\ (HashedSet /\ w.set.elems = <<>>) => out.res = Append(out.arg, 0)
    /\ (out.op \in {"new", "default"} /\ IsFrozenMap(w)) => w.map.entries = <<>>
    /\ (out.op \in {"new", "default"} /\ IsFrozenSet(w)) => w.set.elems = <<>>
    /\ (out.op \in {"from_iter", "from_array"} /\ out.arg = <<>> /\ IsFrozenMap(w)) =>
          w.map.entries = <<>>
    /\ (out.op \in {"from_iter", "from_array"} /\ out.arg = <<>> /\ IsFrozenSet(w)) =>
          w.set.elems = <<>>
    /\ (out.op \in {"freeze", "from"} /\ IsFrozenMap(w) /\ out.arg.entries = <<>>) =>
          w.map.entries = <<>>
    /\ (out.op \in {"freeze", "from"} /\ IsFrozenSet(w) /\ out.arg.elems = <<>>) =>
          w.set.elems = <<>>

\* An empty set hashed into a hasher that had been written to.
C5_Witness ==
    /\ HashedSet
    /\ w.set.elems = <<>>
    /\ out.arg # <<>>

\* C6: no call on &self changes the wrapper: a step that is a membership
\* test, lookup, indexing, iteration, length, emptiness check, comparison,
\* hashing or cloning leaves the wrapper's entries and strategy as they were.
C6_NoMutation ==
    [][(out'.op \in BorrowOps) => (w' = w)]_vars

\* A wrapper with entries whose last call was one on &self.
C6_Witness ==
    /\ out.op \in BorrowOps
    /\ IsFrozenSet(w)
    /\ Len(w.set.elems) >= 2

\* C7: indexing by a key that is present gives the value stored for it,
\* indexing by an absent key panics, and contains_key tells the two apart;
\* with the case of the map {"a":1,"b":2} (the keys a, b, c as 1, 2, 3).
C7_IndexPresentOrPanic ==
    /\ (out.op = "index" /\ out.arg \in KeySet(w.map)) =>
          /\ ~out.res.panic
          /\ <<out.arg, out.res.value>> \in EntrySet(w.map)
    /\ (out.op = "index" /\ out.arg \notin KeySet(w.map)) => out.res = [panic |-> TRUE]
    /\ (out.op = "contains_key") => (out.res <=> (out.arg \in KeySet(w.map)))
    /\ \A s \in RandomStates :
          LET ab == FrozenMap_from_array(s, <<<<1, 1>>, <<2, 2>>>>)
          IN  /\ HashMapGet(FrozenMap_deref(ab), 1) # <<>>
              /\ HashMapGet(FrozenMap_deref(ab), 3) = <<>>
              /\ FrozenMap_index(ab, 1) = [panic |-> FALSE, value |-> 1]
              /\ FrozenMap_index(ab, 3).panic

\* A map with entries was indexed by a key it does not hold.
C7_Witness ==
    /\ out.op = "index"
    /\ out.res.panic
    /\ w.map.entries # <<>>

\* C8: built from an iterator, a FrozenMap holds one entry for each distinct
\* key, with the value of the last pair of that key, and a FrozenSet holds
\* each distinct element once.
C8_FromIterDeduplicates ==
    /\ (out.op = "from_iter" /\ IsFrozenMap(w)) =>
          /\ EntrySet(w.map) = LastWrites(out.arg)
          /\ Len(w.map.entries) = Cardinality({e[1] : e \in Range(out.arg)})
    /\ (out.op = "from_iter" /\ IsFrozenSet(w)) =>
          /\ ElemSet(w.set) = Range(out.arg)
          /\ Len(w.set.elems) = Cardinality(Range(out.arg))

\* A map built from an iterator that gives one key two different values.
C8_Witness ==
    /\ out.op = "from_iter"
    /\ IsFrozenMap(w)
    /\ \E p, r \in 1..Len(out.arg) :
          /\ p < r
          /\ out.arg[p][1] = out.arg[r][1]
          /\ out.arg[p][2] # out.arg[r][2]

\* C9: the hash does not depend on the strategy S: a wrapper with the same
\* entries under another strategy instance, of the same type or not, hashes
\* the same.
C9_HashIgnoresStrategy ==
    /\ HashedMap =>
          \A other \in FrozenMaps :
              ( /\ EntrySet(other.map) = EntrySet(w.map)
                /\ other.map.hash_builder # w.map.hash_builder )
              => FrozenMap_hash(other, out.arg) = out.res
    /\ HashedSet =>
          \A other \in FrozenSets :
              ( /\ ElemSet(other.set) = ElemSet(w.set)
                /\ other.set.hash_builder # w.set.hash_builder )
              => FrozenSet_hash(other, out.arg) = out.res

\* A hashed set of two elements that a differently seeded RandomState holds
\* in another order.
C9_Witness ==
    /\ HashedSet
    /\ Len(w.set.elems) >= 2
    /\ \E other \in FrozenSets :
          /\ ElemSet(other.set) = ElemSet(w.set)
          /\ SameType(other.set.hash_builder, w.set.hash_builder)
          /\ other.set.hash_builder # w.set.hash_builder
          /\ other.set.elems # w.set.elems

\* C10: hash writes one value to the caller's hasher, after what was there:
\* the exclusive-or, from zero, of one digest for each entry, the digest of a
\* fresh hasher fed the key and then the value (the element, for a set).
C10_HashFeedsOneXor ==
    /\ HashedMap => out.res = Append(out.arg, XorOfMapEntries(EntrySet(w.map)))
    /\ HashedSet => out.res = Append(out.arg, XorOfSetEntries(ElemSet(w.set)))

\* A map of two entries hashed into a hasher that had been written to.
C10_Witness ==
    /\ HashedMap
    /\ Len(w.map.entries) >= 2
    /\ out.arg # <<>>

====
